---- MODULE Spec2Model ----
(***************************************************************************)
(* Gazelle's label resolution, rule generation and BUILD-file generation   *)
(* (rules_go, go/tools/gazelle).                                           *)
(*                                                                         *)
(* Every Go string is a sequence of one-character strings, so that         *)
(* prefix tests, trimming, path cleaning and sorting are computed on the   *)
(* characters as the Go code computes them.                                *)
(***************************************************************************)
EXTENDS Integers, Sequences, FiniteSets, TLC

VARIABLES
    \* flatResolver.resolve, one call
    rpc, rGoPrefix, importpath, curPkg, resolved,
    \* rules.generator.Generate, one call
    gpc, gStyle, gRel, gPkg, gOut,
    \* generator.Generator.Generate, one run over a walk
    pc, repoRoot, dir, style, walked, files, lastPkg, lastGen, ret,
    \* the File of one package: its rules, then its load statement
    lpc, lStmts, lFile,
    \* flatFileBuilder: its File b.f, and what was called on it
    flatF, flatAdded, flatCalls, flatAtFirst,
    \* structuredFileBuilder: its Files b.fs, and what was called on it
    structFs, structAdded, structRet

resolveVars == <<rpc, rGoPrefix, importpath, curPkg, resolved>>
rulesVars == <<gpc, gStyle, gRel, gPkg, gOut>>
genVars == <<pc, repoRoot, dir, style, walked, files, lastPkg, lastGen, ret>>
loadVars == <<lpc, lStmts, lFile>>
flatVars == <<flatF, flatAdded, flatCalls, flatAtFirst>>
structVars == <<structFs, structAdded, structRet>>
builderVars == <<flatVars, structVars>>
vars == <<resolveVars, rulesVars, genVars, loadVars, builderVars>>

----------------------------------------------------------------------------
(* Bounds *)

\* longest free part of an import path, and longest directory argument of Generate
MaxLen == 3
\* longest context directory handed to resolve
MaxDirLen == 3
\* most imports of one package, all three scopes together
MaxImports == 2
\* most packages one walk delivers
MaxPkgs == 2

----------------------------------------------------------------------------
(* Strings *)

Alphabet == {"/", ".", "a", "_"}

StringsUpTo(n) == UNION {[1..k -> Alphabet] : k \in 0..n}

\* byte order of the characters that occur in rule kinds and paths
ByteOrder == <<".", "/", "_", "a", "b", "c", "e", "f", "g", "i", "l", "n",
               "o", "p", "r", "s", "t", "x", "y">>

Byte(c) == CHOOSE i \in 1..Len(ByteOrder) : ByteOrder[i] = c

\* Go's < on strings
StrLess(s, t) ==
    \E i \in 1..(Len(t)) :
        /\ \A j \in 1..(i - 1) : j <= Len(s) /\ s[j] = t[j]
        /\ \/ i = Len(s) + 1
           \/ i <= Len(s) /\ Byte(s[i]) < Byte(t[i])

HasPrefix(s, prefix) ==
    /\ Len(prefix) <= Len(s)
    /\ SubSeq(s, 1, Len(prefix)) = prefix

TrimPrefix(s, prefix) ==
    IF HasPrefix(s, prefix) THEN SubSeq(s, Len(prefix) + 1, Len(s)) ELSE s

StrContains(s, c) == \E i \in 1..Len(s) : s[i] = c

\* first index (1-based) of character c in s, 0 when absent
IndexByte(s, c) ==
    IF StrContains(s, c)
    THEN CHOOSE i \in 1..Len(s) : s[i] = c /\ \A j \in 1..(i - 1) : s[j] # c
    ELSE 0

\* strings.LastIndex, 0-based as in Go, -1 when absent
LastIndex(s, sub) ==
    LET hits == {i \in 0..(Len(s) - Len(sub)) : SubSeq(s, i + 1, i + Len(sub)) = sub}
    IN IF hits = {} THEN -1 ELSE CHOOSE i \in hits : \A j \in hits : j <= i

RECURSIVE Split(_)
Split(s) ==
    LET i == IndexByte(s, "/")
    IN IF i = 0 THEN <<s>>
       ELSE <<SubSeq(s, 1, i - 1)>> \o Split(SubSeq(s, i + 1, Len(s)))

RECURSIVE JoinSegs(_)
JoinSegs(segs) ==
    IF segs = <<>> THEN <<>>
    ELSE IF Len(segs) = 1 THEN segs[1]
    ELSE segs[1] \o <<"/">> \o JoinSegs(Tail(segs))

Dot == <<".">>
DotDot == <<".", ".">>
Slash == <<"/">>

RECURSIVE CleanStack(_, _, _)
CleanStack(segs, stack, rooted) ==
    IF segs = <<>> THEN stack
    ELSE LET h == Head(segs)
             t == Tail(segs)
         IN IF h = <<>> \/ h = Dot THEN CleanStack(t, stack, rooted)
            ELSE IF h = DotDot
            THEN IF stack # <<>> /\ stack[Len(stack)] # DotDot
                 THEN CleanStack(t, SubSeq(stack, 1, Len(stack) - 1), rooted)
                 ELSE IF rooted THEN CleanStack(t, stack, rooted)
                      ELSE CleanStack(t, Append(stack, h), rooted)
            ELSE CleanStack(t, Append(stack, h), rooted)

\* path.Clean
Clean(p) ==
    IF p = <<>> THEN Dot
    ELSE LET rooted == p[1] = "/"
             body == JoinSegs(CleanStack(Split(p), <<>>, rooted))
             out == IF rooted THEN Slash \o body ELSE body
         IN IF out = <<>> THEN Dot ELSE out

RECURSIVE NonEmpty(_)
NonEmpty(elems) ==
    IF elems = <<>> THEN <<>>
    ELSE IF Head(elems) = <<>> THEN NonEmpty(Tail(elems))
    ELSE <<Head(elems)>> \o NonEmpty(Tail(elems))

\* path.Join
PathJoin(elems) ==
    LET ne == NonEmpty(elems)
    IN IF ne = <<>> THEN <<>> ELSE Clean(JoinSegs(ne))

\* path.Base
PathBase(p) ==
    IF p = <<>> THEN Dot
    ELSE LET segs == NonEmpty(Split(p))
         IN IF segs = <<>> THEN Slash ELSE segs[Len(segs)]

----------------------------------------------------------------------------
(* Labels and the flat resolver *)

defaultLibName == <<"g","o","_","d","e","f","a","u","l","t","_","l","i","b","r","a","r","y">>

Label(repo, pkg, name, relative) ==
    [repo |-> repo, pkg |-> pkg, name |-> name, relative |-> relative]

NoLabel == Label(<<>>, <<>>, <<>>, FALSE)

NoError == [msg |-> "", path |-> <<>>, root |-> <<>>]

ResolveOk(l) == [label |-> l, err |-> NoError]

ResolveFail(p, goPrefix) ==
    [label |-> NoLabel,
     err |-> [msg |-> "importpath does not start with goPrefix", path |-> p, root |-> goPrefix]]

\* the "./" rewrite at the head of flatResolver.resolve
\* faulty variant: the context directory is left out of the join
RelativeImportNoDir(goPrefix, ip, d) ==
    IF HasPrefix(ip, <<".", "/">>)
    THEN PathJoin(<<goPrefix, SubSeq(ip, 3, Len(ip))>>)
    ELSE ip

RelativeImport(goPrefix, ip, d) ==
    IF HasPrefix(ip, <<".", "/">>)
    THEN PathJoin(<<goPrefix, d, SubSeq(ip, 3, Len(ip))>>)
    ELSE ip

\* faulty variant: the suffix is replaced by the default library name
FlatLabelDefault(goPrefix, ip) ==
    IF ip = goPrefix
    THEN ResolveOk(Label(<<>>, <<>>, defaultLibName, TRUE))
    ELSE IF HasPrefix(ip, goPrefix \o Slash)
    THEN ResolveOk(Label(<<>>, <<>>, defaultLibName, TRUE))
    ELSE ResolveFail(ip, goPrefix)

\* faulty variant: the prefix is tested without its trailing slash
FlatLabelBarePrefix(goPrefix, ip) ==
    IF ip = goPrefix
    THEN ResolveOk(Label(<<>>, <<>>, defaultLibName, TRUE))
    ELSE IF HasPrefix(ip, goPrefix)
    THEN ResolveOk(Label(<<>>, <<>>, TrimPrefix(ip, goPrefix), TRUE))
    ELSE ResolveFail(ip, goPrefix)

\* flatResolver.resolve after the "./" rewrite
FlatLabel(goPrefix, ip) ==
    IF ip = goPrefix
    THEN ResolveOk(Label(<<>>, <<>>, defaultLibName, TRUE))
    ELSE IF HasPrefix(ip, goPrefix \o Slash)
    THEN ResolveOk(Label(<<>>, <<>>, TrimPrefix(ip, goPrefix \o Slash), TRUE))
    ELSE ResolveFail(ip, goPrefix)

flatResolve(goPrefix, ip, d) == FlatLabel(goPrefix, RelativeImport(goPrefix, ip, d))

----------------------------------------------------------------------------
(* One call of flatResolver.resolve *)

\* values of goPrefix the resolver is constructed with
ResolvePrefixes == {<<"a">>, <<"a", "/", "_">>, <<"a", "/", "a">>}

\* import paths: free strings, and strings that continue goPrefix or "./"
ImportPaths(goPrefix) ==
    {h \o t : h \in {<<>>, goPrefix, goPrefix \o Slash, <<".", "/">>},
              t \in StringsUpTo(MaxLen)}

\* context directories: the repository root ("") and clean paths relative to it
ContextDirs ==
    {d \in StringsUpTo(MaxDirLen) :
        \/ d = <<>>
        \/ Clean(d) = d /\ d # Dot /\ d[1] # "/" /\ ~HasPrefix(d, DotDot)}

NoOutcome == [label |-> NoLabel, err |-> NoError]

IdleResolve ==
    /\ rpc = "idle"
    /\ rGoPrefix = <<>>
    /\ importpath = <<>>
    /\ curPkg = <<>>
    /\ resolved = NoOutcome

IdleRules ==
    /\ gpc = "idle"
    /\ gStyle = "idle"
    /\ gRel = <<>>
    /\ gPkg = <<>>
    /\ gOut = <<>>

IdleGen ==
    /\ pc = "idle"
    /\ repoRoot = <<>>
    /\ dir = <<>>
    /\ style = "idle"
    /\ walked = <<>>
    /\ files = <<>>
    /\ lastPkg = <<>>
    /\ lastGen = <<>>
    /\ ret = <<>>

IdleLoad ==
    /\ lpc = "idle"
    /\ lStmts = <<>>
    /\ lFile = <<>>

IdleFlat ==
    /\ flatF = <<>>
    /\ flatAdded = <<>>
    /\ flatCalls = 0
    /\ flatAtFirst = 0

IdleStruct ==
    /\ structFs = <<>>
    /\ structAdded = <<>>
    /\ structRet = <<>>

IdleBuilders == IdleFlat /\ IdleStruct

InitResolve ==
    /\ rpc = "call"
    /\ rGoPrefix \in ResolvePrefixes
    /\ importpath \in ImportPaths(rGoPrefix)
    /\ curPkg \in ContextDirs
    /\ resolved = NoOutcome
    /\ IdleRules
    /\ IdleGen
    /\ IdleLoad
    /\ IdleBuilders

FlatResolve ==
    /\ rpc = "call"
    /\ resolved' = flatResolve(rGoPrefix, importpath, curPkg)
    /\ rpc' = "ret"
    /\ UNCHANGED <<rGoPrefix, importpath, curPkg, rulesVars, genVars, loadVars, builderVars>>

NextResolve == FlatResolve

SpecResolve == InitResolve /\ [][NextResolve]_vars

----------------------------------------------------------------------------
(* Claims about the flat resolver *)

IsRelativeImport == HasPrefix(importpath, <<".", "/">>)

DefaultLabel == Label(<<>>, <<>>, defaultLibName, TRUE)

\* C1: for an import path that does not begin with "./", resolve returns the
\* relative label go_default_library when the path equals goPrefix, and the
\* relative label named s, verbatim, when the path is goPrefix + "/" + s with s
\* non-empty; neither result depends on the context directory.
C1_FlatNonRelative ==
    (rpc = "ret" /\ ~IsRelativeImport) =>
        /\ importpath = rGoPrefix => resolved = ResolveOk(DefaultLabel)
        /\ \A n \in 1..Len(importpath) :
              LET s == SubSeq(importpath, Len(importpath) - n + 1, Len(importpath))
              IN importpath = rGoPrefix \o Slash \o s =>
                    resolved = ResolveOk(Label(<<>>, <<>>, s, TRUE))

C1_Witness ==
    /\ rpc = "ret"
    /\ ~IsRelativeImport
    /\ curPkg = <<"a">>
    /\ rGoPrefix = <<"a", "/", "_">>
    /\ importpath = rGoPrefix \o <<"/", "a", "/", "_">>
    /\ resolved.label.name = <<"a", "/", "_">>

\* C2: an import path that is not goPrefix, does not begin with goPrefix + "/"
\* and does not begin with "./" makes resolve return an error and the zero label.
C2_FlatOutsidePrefixFails ==
    (/\ rpc = "ret"
     /\ ~IsRelativeImport
     /\ importpath # rGoPrefix
     /\ ~HasPrefix(importpath, rGoPrefix \o Slash)) =>
        /\ resolved.err # NoError
        /\ resolved.label = NoLabel

\* the import shares goPrefix as a string but is a different name ("repo_suffix")
C2_Witness ==
    /\ rpc = "ret"
    /\ rGoPrefix = <<"a">>
    /\ importpath = <<"a", "_", "a">>
    /\ resolved.err # NoError

Joined == PathJoin(<<rGoPrefix, curPkg, SubSeq(importpath, 3, Len(importpath))>>)

\* whether path p is directory d or lies below it
Under(p, d) == p = d \/ HasPrefix(p, d \o Slash)

\* C3 as amended: resolve("./" + rest, dir) has the outcome of resolve applied to
\* the cleaned join of goPrefix, dir and rest: it fails when that path is neither
\* goPrefix nor below goPrefix + "/", and otherwise is a relative label, the
\* default library when the path is goPrefix and else the path's remainder after
\* goPrefix + "/" (which need not lie under goPrefix/dir).
C3_RelativeAsJoined ==
    (rpc = "ret" /\ IsRelativeImport) =>
        /\ resolved = flatResolve(rGoPrefix, Joined, curPkg)
        /\ ~HasPrefix(Joined, <<".", "/">>)
        /\ resolved.err # NoError <=> ~Under(Joined, rGoPrefix)
        /\ resolved.err = NoError =>
              /\ resolved.label.relative
              /\ \/ Joined = rGoPrefix /\ resolved.label = DefaultLabel
                 \/ Joined = rGoPrefix \o Slash \o resolved.label.name

C3_Witness ==
    /\ rpc = "ret"
    /\ rGoPrefix = <<"a", "/", "_">>
    /\ curPkg = <<"a">>
    /\ importpath = <<".", "/", "_">>
    /\ resolved = ResolveOk(Label(<<>>, <<>>, <<"a", "/", "_">>, TRUE))

\* C3 as stated: the result of a relative import is always a relative label that
\* names the default library or a target under goPrefix/dir.
C3_Original ==
    (rpc = "ret" /\ IsRelativeImport) =>
        /\ resolved = flatResolve(rGoPrefix, Joined, curPkg)
        /\ resolved.err = NoError
        /\ resolved.label.relative
        /\ \/ resolved.label = DefaultLabel
           \/ Under(rGoPrefix \o Slash \o resolved.label.name,
                    PathJoin(<<rGoPrefix, curPkg>>))

----------------------------------------------------------------------------
(* Rule generation: rules.NewGenerator and generator.Generate *)

defaultTestName == <<"g", "o", "_", "d", "e", "f", "a", "u", "l", "t", "_", "t", "e", "s", "t">>
defaultXTestName == <<"g", "o", "_", "d", "e", "f", "a", "u", "l", "t", "_", "x", "t", "e", "s", "t">>
KindGoPrefix == <<"g", "o", "_", "p", "r", "e", "f", "i", "x">>
KindGoLibrary == <<"g", "o", "_", "l", "i", "b", "r", "a", "r", "y">>
KindGoBinary == <<"g", "o", "_", "b", "i", "n", "a", "r", "y">>
KindGoTest == <<"g", "o", "_", "t", "e", "s", "t">>
SuffixTest == <<"_", "t", "e", "s", "t">>
SuffixXTest == <<"_", "x", "t", "e", "s", "t">>
VisibilityPublic == <<"/", "/", "v", "i", "s", "i", "b", "i", "l", "i", "t", "y", ":", "p", "u", "b", "l", "i", "c">>
SubpackagesSuffix == <<":", "_", "_", "s", "u", "b", "p", "a", "c", "k", "a", "g", "e", "s", "_", "_">>
SegInternal == <<"i", "n", "t", "e", "r", "n", "a", "l">>
SegXInternal == <<"x", "i", "n", "t", "e", "r", "n", "a", "l">>

\* the go_prefix of the repository the generator is constructed for
GoPrefix == <<"x", ".", "y", "/", "r">>

Styles == {"StructuredStyle", "FlatStyle"}

\* structuredResolver.resolve: labels of the default library of the package directory
structuredResolve(goPrefix, ip, d) ==
    IF ip = goPrefix
    THEN ResolveOk(Label(<<>>, <<>>, defaultLibName, FALSE))
    ELSE IF HasPrefix(ip, goPrefix \o Slash)
    THEN ResolveOk(Label(<<>>, TrimPrefix(ip, goPrefix \o Slash), defaultLibName, FALSE))
    ELSE ResolveFail(ip, goPrefix)

\* externalResolver.resolve: the first path segment names the external repository,
\* the remainder the package in it; it never fails
externalResolve(ip, d) ==
    LET i == IndexByte(ip, "/")
        repo == IF i = 0 THEN ip ELSE SubSeq(ip, 1, i - 1)
        pkg == IF i = 0 THEN <<>> ELSE SubSeq(ip, i + 1, Len(ip))
    IN ResolveOk(Label(repo, pkg, defaultLibName, FALSE))

\* label.String
LabelString(l) ==
    IF l.relative THEN <<":">> \o l.name
    ELSE IF l.repo # <<>> THEN <<"@">> \o l.repo \o <<"/", "/">> \o l.pkg \o <<":">> \o l.name
    ELSE <<"/", "/">> \o l.pkg \o <<":">> \o l.name

\* the resolver NewGenerator selects for the style
LocalResolve(s, ip, d) ==
    IF s = "StructuredStyle"
    THEN structuredResolve(GoPrefix, ip, d)
    ELSE flatResolve(GoPrefix, ip, d)

\* generator.r: the resolverFunc NewGenerator builds
Resolve(s, ip, d) ==
    IF /\ ip # GoPrefix
       /\ ~HasPrefix(ip, GoPrefix \o Slash)
       /\ ~HasPrefix(ip, <<".", "/">>)
    THEN externalResolve(ip, d)
    ELSE LocalResolve(s, ip, d)

\* refSrc: identity for the structured style, directory-qualified for the flat one
RECURSIVE JoinEach(_, _)
JoinEach(rel, srcs) ==
    IF srcs = <<>> THEN <<>>
    ELSE <<PathJoin(<<rel, Head(srcs)>>)>> \o JoinEach(rel, Tail(srcs))

refSrc(s, rel, srcs) == IF s = "StructuredStyle" THEN srcs ELSE JoinEach(rel, srcs)

\* faulty variant: only single-segment paths without a dot count as standard
isStandardSingleSegment(ip) == ~StrContains(ip, "/") /\ ~StrContains(ip, ".")

isStandard(ip) ==
    LET i == IndexByte(ip, "/")
        seg == IF i = 0 THEN ip ELSE SubSeq(ip, 1, i - 1)
    IN ~StrContains(seg, ".")

DepsOk(deps) == [deps |-> deps, err |-> NoError]
DepsFail(err) == [deps |-> <<>>, err |-> err]

\* generator.dependencies
RECURSIVE dependencies(_, _, _)
dependencies(s, imports, d) ==
    IF imports = <<>> THEN DepsOk(<<>>)
    ELSE IF isStandard(Head(imports)) THEN dependencies(s, Tail(imports), d)
    ELSE CHOOSE out \in
            {IF l.err # NoError THEN DepsFail(l.err)
             ELSE IF more.err # NoError THEN DepsFail(more.err)
             ELSE DepsOk(<<LabelString(l.label)>> \o more.deps) :
                l \in {Resolve(s, Head(imports), d)},
                more \in {dependencies(s, Tail(imports), d)}} : TRUE

KV(k, v) == [key |-> k, value |-> v]

\* newRule: a call of kind with positional args and key = value attributes
NewRule(kind, args, attrs) == [kind |-> kind, args |-> args, attrs |-> attrs]

NoRule == NewRule(<<>>, <<>>, <<>>)

HasAttr(r, k) == \E i \in 1..Len(r.attrs) : r.attrs[i].key = k

\* Rule.AttrString / attribute lookup; the empty string when absent
Attr(r, k) ==
    IF HasAttr(r, k)
    THEN r.attrs[CHOOSE i \in 1..Len(r.attrs) : r.attrs[i].key = k].value
    ELSE <<>>

RuleOk(r) == [rule |-> r, err |-> NoError]
RuleFail(err) == [rule |-> NoRule, err |-> err]

\* the visibility computed in generator.generate
Visibility(rel) ==
    LET i == LastIndex(rel, Slash \o SegInternal \o Slash)
    IN IF i >= 0
       THEN <<"/", "/">> \o SubSeq(rel, 1, i) \o SubpackagesSuffix
       ELSE IF HasPrefix(rel, SegInternal \o Slash)
       THEN <<"/", "/">> \o SubpackagesSuffix
       ELSE VisibilityPublic

\* generator.generate
generate(s, rel, pkg) ==
    CHOOSE out \in
        {LET name == IF pkg.IsCommand THEN PathBase(pkg.Dir) ELSE l.label.name
             kind == IF pkg.IsCommand THEN KindGoBinary ELSE KindGoLibrary
             attrs == <<KV("name", name),
                        KV("srcs", refSrc(s, rel, pkg.GoFiles)),
                        KV("visibility", <<Visibility(rel)>>)>>
         IN IF l.err # NoError THEN RuleFail(l.err)
            ELSE IF deps.err # NoError THEN RuleFail(deps.err)
            ELSE RuleOk(NewRule(kind, <<>>,
                     IF Len(deps.deps) > 0 THEN Append(attrs, KV("deps", deps.deps))
                     ELSE attrs)) :
           l \in {Resolve(s, PathJoin(<<GoPrefix, rel>>), <<>>)},
           deps \in {dependencies(s, pkg.Imports, rel)}} : TRUE

\* generator.generateTest
generateTest(s, rel, pkg, library) ==
    LET name == IF library = defaultLibName THEN defaultTestName ELSE library \o SuffixTest
        attrs == <<KV("name", name),
                   KV("srcs", refSrc(s, rel, pkg.TestGoFiles)),
                   KV("library", <<":">> \o library)>>
    IN CHOOSE out \in
          {IF deps.err # NoError THEN RuleFail(deps.err)
           ELSE RuleOk(NewRule(KindGoTest, <<>>,
                    IF Len(deps.deps) > 0 THEN Append(attrs, KV("deps", deps.deps))
                    ELSE attrs)) :
              deps \in {dependencies(s, pkg.TestImports, rel)}} : TRUE

\* faulty variant: the external test refers back to the library
generateXTestWithLibrary(s, rel, pkg, library) ==
    LET name == IF library = defaultLibName THEN defaultXTestName ELSE library \o SuffixXTest
        attrs == <<KV("name", name),
                   KV("srcs", refSrc(s, rel, pkg.XTestGoFiles)),
                   KV("library", <<":">> \o library)>>
    IN CHOOSE out \in
          {IF deps.err # NoError THEN RuleFail(deps.err)
           ELSE RuleOk(NewRule(KindGoTest, <<>>, Append(attrs, KV("deps", deps.deps)))) :
              deps \in {dependencies(s, pkg.XTestImports, rel)}} : TRUE

\* generator.generateXTest
generateXTest(s, rel, pkg, library) ==
    LET name == IF library = defaultLibName THEN defaultXTestName ELSE library \o SuffixXTest
        attrs == <<KV("name", name),
                   KV("srcs", refSrc(s, rel, pkg.XTestGoFiles))>>
    IN CHOOSE out \in
          {IF deps.err # NoError THEN RuleFail(deps.err)
           ELSE RuleOk(NewRule(KindGoTest, <<>>, Append(attrs, KV("deps", deps.deps)))) :
              deps \in {dependencies(s, pkg.XTestImports, rel)}} : TRUE

RulesOk(rs) == [rules |-> rs, err |-> NoError]
RulesFail(err) == [rules |-> <<>>, err |-> err]

\* generator.Generate of package rules
\* (r, library, t and x are bound once each, as the code's locals are)
Generate(s, rel, pkg) ==
    CHOOSE out \in UNION
        {{LET p == IF rel = <<>> THEN <<NewRule(KindGoPrefix, <<GoPrefix>>, <<>>)>> ELSE <<>>
              hasTest == Len(pkg.TestGoFiles) > 0
              hasXTest == Len(pkg.XTestGoFiles) > 0
              rules1 == Append(p, r.rule)
              rules2 == IF hasTest THEN Append(rules1, t.rule) ELSE rules1
              rules3 == IF hasXTest THEN Append(rules2, x.rule) ELSE rules2
          IN IF r.err # NoError THEN RulesFail(r.err)
             ELSE IF hasTest /\ t.err # NoError THEN RulesFail(t.err)
             ELSE IF hasXTest /\ x.err # NoError THEN RulesFail(x.err)
             ELSE RulesOk(rules3) :
            t \in {generateTest(s, rel, pkg, Attr(r.rule, "name"))},
            x \in {generateXTest(s, rel, pkg, Attr(r.rule, "name"))}} :
          r \in {generate(s, rel, pkg)}} : TRUE

----------------------------------------------------------------------------
(* One call of generator.Generate (rules) on a package *)

\* the repository root the package directories lie under
RulesRepoRoot == <<"/", "r">>

\* package directories relative to the repository root
RelDirs ==
    {<<>>,
     <<"a">>,
     SegInternal,
     JoinSegs(<<<<"a">>, SegInternal>>),
     JoinSegs(<<SegInternal, <<"a">>>>),
     JoinSegs(<<<<"a">>, SegInternal, <<"b">>>>),
     JoinSegs(<<<<"a">>, SegXInternal, <<"b">>>>),
     JoinSegs(<<<<"a">>, SegInternal, <<"b">>, SegInternal, <<"c">>>>)}

ImpStd == <<"f">>
ImpStdSub == <<"n", "/", "h">>
ImpLocal == GoPrefix \o <<"/", "a">>
ImpRelative == <<".", "/", ".", ".", "/", ".", ".", "/", "q">>
ImpExternal == <<"e", ".", "x", "/", "z">>

ImportPool == {ImpStd, ImpStdSub, ImpLocal, ImpRelative, ImpExternal}

MainGo == <<"m", ".", "g", "o">>
TestGo == <<"m", "_", "t", "e", "s", "t", ".", "g", "o">>
XTestGo == <<"x", "_", "t", "e", "s", "t", ".", "g", "o">>

\* build.Package, the fields the generator reads
Package(d, cmd, hasTest, hasXTest, imports, testImports, xtestImports) ==
    [Dir |-> d,
     IsCommand |-> cmd,
     GoFiles |-> <<MainGo>>,
     TestGoFiles |-> IF hasTest THEN <<TestGo>> ELSE <<>>,
     XTestGoFiles |-> IF hasXTest THEN <<XTestGo>> ELSE <<>>,
     Imports |-> imports,
     TestImports |-> testImports,
     XTestImports |-> xtestImports]

\* packages as go/build reports them: test imports come from test files
InitRules ==
    /\ gpc = "call"
    /\ gStyle \in Styles
    /\ gRel \in RelDirs
    /\ \E cmd \in BOOLEAN, hasTest \in BOOLEAN, hasXTest \in BOOLEAN :
         \E k1 \in 0..MaxImports :
           \E k2 \in 0..(IF hasTest THEN MaxImports - k1 ELSE 0) :
             \E k3 \in 0..(IF hasXTest THEN MaxImports - k1 - k2 ELSE 0) :
               \E i1 \in [1..k1 -> ImportPool], i2 \in [1..k2 -> ImportPool],
                  i3 \in [1..k3 -> ImportPool] :
                 gPkg = Package(PathJoin(<<RulesRepoRoot, gRel>>), cmd, hasTest, hasXTest,
                                i1, i2, i3)
    /\ gOut = RulesOk(<<>>)
    /\ IdleResolve
    /\ IdleGen
    /\ IdleLoad
    /\ IdleBuilders

RulesGenerate ==
    /\ gpc = "call"
    /\ gOut' = Generate(gStyle, gRel, gPkg)
    /\ gpc' = "ret"
    /\ UNCHANGED <<gStyle, gRel, gPkg, resolveVars, genVars, loadVars, builderVars>>

NextRules == RulesGenerate

SpecRules == InitRules /\ [][NextRules]_vars

----------------------------------------------------------------------------
(* Claims about rule generation *)

Generated == gpc = "ret" /\ gOut.err = NoError

HasTestFiles == Len(gPkg.TestGoFiles) > 0
HasXTestFiles == Len(gPkg.XTestGoFiles) > 0

PrimaryIndex == IF gRel = <<>> THEN 2 ELSE 1
TestIndex == PrimaryIndex + 1
XTestIndex == IF HasTestFiles THEN PrimaryIndex + 2 ELSE PrimaryIndex + 1

\* the first path segment of import path p contains no dot
FirstSegmentHasNoDot(p) ==
    \A i \in 1..Len(p) : p[i] = "." => \E j \in 1..(i - 1) : p[j] = "/"

\* import path p is a single segment without a dot
SingleSegmentNoDot(p) == \A i \in 1..Len(p) : p[i] # "." /\ p[i] # "/"

\* the deps of rule r: one resolved label per import in kept, in order
DepsAre(r, kept) ==
    LET deps == Attr(r, "deps")
    IN /\ Len(deps) = Len(kept)
       /\ \A i \in 1..Len(kept) :
             deps[i] = LabelString(Resolve(gStyle, kept[i], gRel).label)

DepsDropFirstSegmentNoDot(r, imports) ==
    LET Keep(p) == ~FirstSegmentHasNoDot(p) IN DepsAre(r, SelectSeq(imports, Keep))

DepsDropSingleSegmentNoDot(r, imports) ==
    LET Keep(p) == ~SingleSegmentNoDot(p) IN DepsAre(r, SelectSeq(imports, Keep))

\* C4 as amended: in each generated rule (main, test, external test) the deps
\* list has no entry for an import whose FIRST path segment contains no dot
\* (however many segments follow), and exactly one resolved label for each other
\* import of that scope, in the input order, duplicates kept.
C4_DepsFollowImports ==
    Generated =>
        /\ DepsDropFirstSegmentNoDot(gOut.rules[PrimaryIndex], gPkg.Imports)
        /\ HasTestFiles =>
              DepsDropFirstSegmentNoDot(gOut.rules[TestIndex], gPkg.TestImports)
        /\ HasXTestFiles =>
              DepsDropFirstSegmentNoDot(gOut.rules[XTestIndex], gPkg.XTestImports)

C4_Witness ==
    /\ Generated
    /\ gPkg.Imports = <<ImpStdSub, ImpExternal>>
    /\ Attr(gOut.rules[PrimaryIndex], "deps") = <<LabelString(externalResolve(ImpExternal, gRel).label)>>

\* C4 as stated: the imports dropped are those of a single path segment without
\* a dot; every other import has its resolved label in deps.
C4_Original ==
    Generated =>
        /\ DepsDropSingleSegmentNoDot(gOut.rules[PrimaryIndex], gPkg.Imports)
        /\ HasTestFiles =>
              DepsDropSingleSegmentNoDot(gOut.rules[TestIndex], gPkg.TestImports)
        /\ HasXTestFiles =>
              DepsDropSingleSegmentNoDot(gOut.rules[XTestIndex], gPkg.XTestImports)

RuleCount ==
    (IF gRel = <<>> THEN 1 ELSE 0) + 1
    + (IF HasTestFiles THEN 1 ELSE 0) + (IF HasXTestFiles THEN 1 ELSE 0)

\* C5 as amended: a successfully generated package below the repository root
\* with test files and no external test files produces exactly two rules
\* (library/binary + internal test); external test files add exactly one more
\* rule, which has no library attribute; at the repository root the go_prefix
\* rule precedes these, so each count is one higher.
C5_RuleCount ==
    Generated =>
        /\ Len(gOut.rules) = RuleCount
        /\ gRel = <<>> <=> gOut.rules[1].kind = KindGoPrefix
        /\ HasTestFiles =>
              /\ gOut.rules[TestIndex].kind = KindGoTest
              /\ HasAttr(gOut.rules[TestIndex], "library")
        /\ HasXTestFiles =>
              /\ gOut.rules[XTestIndex].kind = KindGoTest
              /\ ~HasAttr(gOut.rules[XTestIndex], "library")

C5_Witness ==
    /\ Generated
    /\ gRel = <<"a">>
    /\ HasTestFiles
    /\ HasXTestFiles
    /\ Len(gOut.rules) = 3
    /\ ~HasAttr(gOut.rules[3], "library")

\* C5 as stated: in every package directory, the repository root included, test
\* files without external test files give exactly two rules, and external test
\* files exactly one more, without a library attribute.
C5_Original ==
    (Generated /\ HasTestFiles) =>
        IF HasXTestFiles
        THEN Len(gOut.rules) = 3 /\ ~HasAttr(gOut.rules[Len(gOut.rules)], "library")
        ELSE Len(gOut.rules) = 2

InternalSegments == {i \in 1..Len(Split(gRel)) : Split(gRel)[i] = SegInternal}

SubpackagesOf(parent) == <<"/", "/">> \o parent \o SubpackagesSuffix

\* C6: a package whose directory path has a segment named "internal", at any
\* position (first and last included), gets the visibility of the subpackages of
\* that segment's parent and never "//visibility:public"; every other package
\* gets "//visibility:public".
C6_InternalVisibility ==
    Generated =>
        LET vis == Attr(gOut.rules[PrimaryIndex], "visibility")
        IN IF InternalSegments = {}
           THEN vis = <<VisibilityPublic>>
           ELSE \E i \in InternalSegments :
                   vis = <<SubpackagesOf(JoinSegs(SubSeq(Split(gRel), 1, i - 1)))>>

----------------------------------------------------------------------------
(* BUILD-file generation: generator.Generator *)

KindCgoLibrary == <<"c", "g", "o", "_", "l", "i", "b", "r", "a", "r", "y">>
KindLoad == <<"l", "o", "a", "d">>
GoRulesBzl == <<"@", "i", "o", "_", "b", "a", "z", "e", "l", "_", "r", "u", "l", "e", "s", "_", "g", "o", "/", "/", "g", "o", ":", "d", "e", "f", ".", "b", "z", "l">>
buildFileName == <<"B", "U", "I", "L", "D">>

Range(seq) == {seq[i] : i \in 1..Len(seq)}

\* File.Rules(kind): the call statements of the file whose callee is kind
RECURSIVE FileRules(_, _)
FileRules(stmts, kind) ==
    IF stmts = <<>> THEN <<>>
    ELSE IF Head(stmts).kind = kind
    THEN <<Head(stmts)>> \o FileRules(Tail(stmts), kind)
    ELSE FileRules(Tail(stmts), kind)

RECURSIVE InsertSorted(_, _)
InsertSorted(sorted, x) ==
    IF sorted = <<>> THEN <<x>>
    ELSE IF StrLess(x, Head(sorted)) THEN <<x>> \o sorted
    ELSE <<Head(sorted)>> \o InsertSorted(Tail(sorted), x)

\* sort.Strings
RECURSIVE SortStrings(_)
SortStrings(list) ==
    IF list = <<>> THEN <<>>
    ELSE InsertSorted(SortStrings(SubSeq(list, 1, Len(list) - 1)), list[Len(list)])

\* faulty variant: the kinds are listed in the order they were collected
loadExprUnsorted(kinds) == NewRule(KindLoad, <<GoRulesBzl>> \o kinds, <<>>)

\* loadExpr: load(GoRulesBzl, kinds sorted)
loadExpr(kinds) == NewRule(KindLoad, <<GoRulesBzl>> \o SortStrings(kinds), <<>>)

\* the kinds Generator.generateLoad looks for, in its order
LoadableKinds == <<KindGoPrefix, KindGoLibrary, KindGoBinary, KindGoTest, KindCgoLibrary>>

RECURSIVE KindsPresent(_, _)
KindsPresent(stmts, kinds) ==
    IF kinds = <<>> THEN <<>>
    ELSE IF Len(FileRules(stmts, Head(kinds))) > 0
    THEN <<Head(kinds)>> \o KindsPresent(stmts, Tail(kinds))
    ELSE KindsPresent(stmts, Tail(kinds))

\* Generator.generateLoad: the statements with the load statement, if any, in front
WithLoad(stmts) ==
    CHOOSE out \in
        {IF Len(list) = 0 THEN stmts ELSE <<loadExpr(list)>> \o stmts :
           list \in {KindsPresent(stmts, LoadableKinds)}} : TRUE

File(path, stmts) == [Path |-> path, Stmt |-> stmts]

\* Generator.emptyToplevel
emptyToplevel ==
    File(buildFileName,
         <<loadExpr(<<KindGoPrefix>>), NewRule(KindGoPrefix, <<GoPrefix>>, <<>>)>>)

FileOk(f) == [file |-> f, err |-> NoError]
FileFail(err) == [file |-> File(<<>>, <<>>), err |-> err]

\* Generator.generateOne
generateOne(s, rel, pkg) ==
    CHOOSE out \in
        {IF rs.err # NoError THEN FileFail(rs.err)
         ELSE FileOk(File(PathJoin(<<rel, buildFileName>>), WithLoad(rs.rules))) :
           rs \in {Generate(s, rel, pkg)}} : TRUE

\* isDescendingDir
isDescendingDir(d, root) == d = root \/ HasPrefix(d, root \o Slash)

\* filepath.Abs of an absolute path
Abs(d) == Clean(d)

\* filepath.Rel(root, d) for d at or below root
Rel(root, d) ==
    IF d = root THEN Dot
    ELSE IF root = Slash THEN SubSeq(d, 2, Len(d))
    ELSE SubSeq(d, Len(root) + 2, Len(d))

PathError(d, root) ==
    [msg |-> "dir is not under the repository root", path |-> d, root |-> root]

WalkerError == [msg |-> "walk failed", path |-> <<>>, root |-> <<>>]

\* faulty variant: a top-level file before every package below the root
NeedsToplevelEveryTime(fs, rel) == rel # <<>>

\* the callback's test for a missing top-level BUILD file
NeedsToplevel(fs, rel) == Len(fs) = 0 /\ rel # <<>>

\* faulty variant: the files collected so far are returned with the error
GenerateResultPartial(fs, err) == [files |-> fs, err |-> err]

\* what Generate returns once the walk has ended with err
GenerateResult(fs, err) ==
    IF err # NoError THEN [files |-> <<>>, err |-> err] ELSE [files |-> fs, err |-> NoError]

----------------------------------------------------------------------------
(* The File of one package: generateOne's statements and emptyToplevel *)

MaxStmts == 3

KindFilegroup == <<"f", "i", "l", "e", "g", "r", "o", "u", "p">>

\* the callees of a File's rule calls: the kinds generateLoad looks for and one
\* it does not
StmtKinds == Range(LoadableKinds) \cup {KindFilegroup}

RECURSIVE StmtLists(_)
StmtLists(n) ==
    IF n = 0 THEN {<<>>}
    ELSE StmtLists(n - 1)
         \cup {Append(l, NewRule(k, <<>>, <<>>)) :
                 l \in {m \in StmtLists(n - 1) : Len(m) = n - 1}, k \in StmtKinds}

InitLoad ==
    /\ lpc = "call"
    /\ lStmts \in StmtLists(MaxStmts)
    /\ lFile = File(buildFileName, <<>>)
    /\ IdleResolve
    /\ IdleRules
    /\ IdleGen
    /\ IdleBuilders

\* generateOne, once the rules are there: they become the File's statements
\* and the load statement, if there is one, is put in front
GenerateLoad ==
    /\ lpc = "call"
    /\ lpc' = "done"
    /\ lFile' = File(lFile.Path, WithLoad(lStmts))
    /\ UNCHANGED <<lStmts, resolveVars, rulesVars, genVars, builderVars>>

\* emptyToplevel: the File that stands for a root without a package
EmptyToplevel ==
    /\ lpc = "call"
    /\ lStmts = <<>>
    /\ lpc' = "toplevel"
    /\ lFile' = emptyToplevel
    /\ UNCHANGED <<lStmts, resolveVars, rulesVars, genVars, builderVars>>

NextLoad == GenerateLoad \/ EmptyToplevel

SpecLoad == InitLoad /\ [][NextLoad]_vars

----------------------------------------------------------------------------
(* One run of Generator.Generate *)

\* repository roots, as filepath.Clean leaves them in New
Roots == {Slash, <<"/", "a">>}

\* the dir argument of Generate: absolute paths, cleaned or not
GenerateDirs == {Slash \o t : t \in StringsUpTo(MaxLen)}

\* the package directories below a repository root, in the walker's (pre-)order
WalkRels == <<<<>>, <<"_">>, <<"a">>, <<"a", "/", "a">>>>

WalkDir(root, i) == PathJoin(<<root, WalkRels[i]>>)

\* path p is directory d or lies below it in the file system
Descends(p, d) ==
    LET ps == NonEmpty(Split(p))
        ds == NonEmpty(Split(d))
    IN Len(ds) <= Len(ps) /\ SubSeq(ps, 1, Len(ds)) = ds

\* the packages the walker reports for directory d: with or without test and
\* external test files, and with at most one import, a "./" import, in a scope
\* that has files
WalkPackages(d) ==
    {Package(d, cmd, hasTest, hasXTest, <<>>, <<>>, <<>>) :
        cmd \in BOOLEAN, hasTest \in BOOLEAN, hasXTest \in BOOLEAN}
    \cup {Package(d, cmd, hasTest, hasXTest, <<ImpRelative>>, <<>>, <<>>) :
        cmd \in BOOLEAN, hasTest \in BOOLEAN, hasXTest \in BOOLEAN}
    \cup {Package(d, cmd, TRUE, hasXTest, <<>>, <<ImpRelative>>, <<>>) :
        cmd \in BOOLEAN, hasXTest \in BOOLEAN}
    \cup {Package(d, cmd, hasTest, TRUE, <<>>, <<>>, <<ImpRelative>>) :
        cmd \in BOOLEAN, hasTest \in BOOLEAN}

NoPackage == Package(<<>>, FALSE, FALSE, FALSE, <<>>, <<>>, <<>>)

Init ==
    /\ pc = "start"
    /\ repoRoot \in Roots
    /\ dir \in GenerateDirs
    /\ style \in Styles
    /\ walked = <<>>
    /\ files = <<>>
    /\ lastPkg = NoPackage
    /\ lastGen = RulesOk(<<>>)
    /\ ret = GenerateResult(<<>>, NoError)
    /\ IdleResolve
    /\ IdleRules
    /\ IdleLoad
    /\ IdleBuilders

\* Generate up to the walk: the directory is made absolute, cleaned and validated
GenerateBegin ==
    /\ pc = "start"
    /\ dir' = Abs(dir)
    /\ IF ~isDescendingDir(dir', repoRoot)
       THEN /\ pc' = "failed"
            /\ ret' = GenerateResult(files, PathError(dir', repoRoot))
       ELSE /\ pc' = "walking"
            /\ UNCHANGED ret
    /\ UNCHANGED <<repoRoot, style, walked, files, lastPkg, lastGen, resolveVars, rulesVars, loadVars, builderVars>>

\* the relative directory the callback computes for a package
PackageRel(root, pkg) ==
    LET rel == Rel(root, pkg.Dir) IN IF rel = Dot THEN <<>> ELSE rel

\* index in WalkRels of the last directory delivered, 0 before the first
LastWalked == IF walked = <<>> THEN 0 ELSE walked[Len(walked)]

\* the walker delivers the next package to the callback; an error of the
\* callback ends the walk and Generate returns it
Visit ==
    /\ pc = "walking"
    /\ Len(walked) < MaxPkgs
    /\ \E i \in 1..Len(WalkRels) :
         /\ i > LastWalked
         /\ Descends(WalkDir(repoRoot, i), dir)
         /\ \E pkg \in WalkPackages(WalkDir(repoRoot, i)) :
              \E rel \in {PackageRel(repoRoot, pkg)} :
                \E one \in {generateOne(style, rel, pkg)} :
                  LET fs == IF NeedsToplevel(files, rel)
                            THEN Append(files, emptyToplevel)
                            ELSE files
                  IN /\ walked' = Append(walked, i)
                     /\ lastPkg' = pkg
                     /\ lastGen' = Generate(style, rel, pkg)
                     /\ IF one.err # NoError
                        THEN /\ files' = fs
                             /\ pc' = "failed"
                             /\ ret' = GenerateResult(fs, one.err)
                        ELSE /\ files' = Append(fs, one.file)
                             /\ UNCHANGED <<pc, ret>>
    /\ UNCHANGED <<repoRoot, dir, style, resolveVars, rulesVars, loadVars, builderVars>>

\* the walk ends and Generate returns the files
WalkDone ==
    /\ pc = "walking"
    /\ pc' = "done"
    /\ ret' = GenerateResult(files, NoError)
    /\ UNCHANGED <<repoRoot, dir, style, walked, files, lastPkg, lastGen,
                   resolveVars, rulesVars, loadVars, builderVars>>

\* the walker itself fails (an unreadable directory, a parse error)
WalkFail ==
    /\ pc = "walking"
    /\ pc' = "failed"
    /\ ret' = GenerateResult(files, WalkerError)
    /\ UNCHANGED <<repoRoot, dir, style, walked, files, lastPkg, lastGen,
                   resolveVars, rulesVars, loadVars, builderVars>>

Next == GenerateBegin \/ Visit \/ WalkDone \/ WalkFail

Spec == Init /\ [][Next]_vars

----------------------------------------------------------------------------
(* Claims about Generator.Generate *)

RecognizedKinds == {KindGoPrefix, KindGoLibrary, KindGoBinary, KindGoTest, KindCgoLibrary}

KindsUsed(f) == {k \in RecognizedKinds : \E i \in 1..Len(f.Stmt) : f.Stmt[i].kind = k}

LoadStatements(f) == {i \in 1..Len(f.Stmt) : f.Stmt[i].kind = KindLoad}

\* the load statement of f names exactly the recognized kinds f uses, ascending
LoadIsExact(f) ==
    IF KindsUsed(f) = {}
    THEN LoadStatements(f) = {}
    ELSE /\ LoadStatements(f) = {1}
         /\ f.Stmt[1].args[1] = GoRulesBzl
         /\ LET names == Tail(f.Stmt[1].args)
            IN /\ Range(names) = KindsUsed(f)
               /\ \A i, j \in 1..Len(names) : i < j => StrLess(names[i], names[j])

\* C7: in every File the generator builds (a package's File, the synthetic
\* top-level File), the load statement names exactly the distinct recognized
\* kinds among the File's rule calls, in lexicographic order without duplicates,
\* and a File without a rule call of a recognized kind has no load statement.
C7_LoadKinds ==
    /\ lpc = "done" => LoadIsExact(lFile) /\ FileRules(lFile.Stmt, KindLoad) \o lStmts = lFile.Stmt
    /\ lpc = "toplevel" => LoadIsExact(lFile)

\* two rule calls of one kind, kinds used in descending order
C7_Witness ==
    /\ lpc = "done"
    /\ lStmts = <<NewRule(KindGoTest, <<>>, <<>>), NewRule(KindGoTest, <<>>, <<>>),
                  NewRule(KindGoLibrary, <<>>, <<>>)>>
    /\ Tail(lFile.Stmt[1].args) = <<KindGoLibrary, KindGoTest>>

\* C7's property of the Files of a whole run of Generate
LoadKindsInGenerate == \A f \in Range(files) \cup Range(ret.files) : LoadIsExact(f)

RECURSIVE CountGoPrefix(_)
CountGoPrefix(fs) ==
    IF fs = <<>> THEN 0
    ELSE Len(SelectSeq(Head(fs).Stmt, LAMBDA c : c.kind = KindGoPrefix))
         + CountGoPrefix(Tail(fs))

RootVisited == \E i \in 1..Len(walked) : WalkRels[walked[i]] = <<>>

\* C8: a successful run whose walk delivered at least one package returns Files
\* with exactly one go_prefix call in total: in the root package's File, the
\* first, when the root was delivered, and otherwise in a synthetic top-level
\* File placed before the first package's File; no later package adds another.
C8_OneGoPrefix ==
    (pc = "done" /\ walked # <<>>) =>
        /\ ret.err = NoError
        /\ CountGoPrefix(ret.files) = 1
        /\ CountGoPrefix(<<ret.files[1]>>) = 1
        /\ ret.files[1].Path = buildFileName
        /\ IF RootVisited
           THEN /\ walked[1] = 1
                /\ Len(ret.files) = Len(walked)
                /\ ret.files[1] # emptyToplevel
           ELSE /\ Len(ret.files) = Len(walked) + 1
                /\ ret.files[1] = emptyToplevel

C8_Witness ==
    /\ pc = "done"
    /\ Len(walked) = 2
    /\ ~RootVisited
    /\ Len(ret.files) = 3
    /\ CountGoPrefix(ret.files) = 1

\* an import of a scope of the last delivered package that has files is not
\* standard and does not resolve
LastRel == PackageRel(repoRoot, lastPkg)

ImportFails(p) == ~isStandard(p) /\ Resolve(style, p, LastRel).err # NoError

SomeImportFails ==
    \/ \E p \in Range(lastPkg.Imports) : ImportFails(p)
    \/ Len(lastPkg.TestGoFiles) > 0 /\ \E p \in Range(lastPkg.TestImports) : ImportFails(p)
    \/ Len(lastPkg.XTestGoFiles) > 0 /\ \E p \in Range(lastPkg.XTestImports) : ImportFails(p)

\* C9: when an import of any scope (main, test, external test) of a delivered
\* package fails to resolve, rule generation for the package returns the error
\* and no rules, and Generate returns that error and no Files, whatever earlier
\* packages produced.
C9_ResolveErrorAborts ==
    (walked # <<>> /\ SomeImportFails) =>
        /\ lastGen.err # NoError
        /\ lastGen.rules = <<>>
        /\ pc = "failed"
        /\ ret.err = lastGen.err
        /\ ret.files = <<>>

C9_Witness ==
    /\ pc = "failed"
    /\ Len(walked) = 2
    /\ Len(files) >= 1
    /\ lastPkg.XTestImports # <<>>
    /\ SomeImportFails
    /\ ret.err = lastGen.err
    /\ ret.files = <<>>

IsPathError(err) == err.msg = "dir is not under the repository root"

\* directory d is root or a path below it
AtOrBelow(d, root) ==
    LET ds == NonEmpty(Split(d))
        rs == NonEmpty(Split(root))
    IN Len(rs) <= Len(ds) /\ \A i \in 1..Len(rs) : ds[i] = rs[i]

\* C10: Generate(dir) fails with the path-validation error, before any package
\* is walked and with no Files, exactly when the cleaned absolute dir is neither
\* the repository root nor a path below it; the root and every descendant are
\* accepted.
C10_PathValidation ==
    pc # "start" =>
        /\ IsPathError(ret.err) <=> ~AtOrBelow(dir, repoRoot)
        /\ IsPathError(ret.err) => pc = "failed" /\ walked = <<>> /\ ret.files = <<>>

\* C10 for every repository root other than the file system root "/"
C10_BelowNamedRoot == repoRoot # Slash => C10_PathValidation

----------------------------------------------------------------------------
(* flatFileBuilder: one File for the whole repository *)

MaxAdds == 2
MaxFilesCalls == 2

\* the rel arguments of addRules
BuilderRels == {<<>>, <<"a">>}

\* the rules arguments of addRules: none, of a kind that is loaded or not,
\* and two kinds in either order
RuleLists ==
    {<<>>,
     <<NewRule(KindGoLibrary, <<>>, <<>>)>>,
     <<NewRule(KindFilegroup, <<>>, <<>>)>>,
     <<NewRule(KindGoLibrary, <<>>, <<>>), NewRule(KindGoTest, <<>>, <<>>)>>,
     <<NewRule(KindGoTest, <<>>, <<>>), NewRule(KindGoLibrary, <<>>, <<>>)>>}

InitFlat ==
    /\ flatF = File(<<>>, <<>>)
    /\ flatAdded = <<>>
    /\ flatCalls = 0
    /\ flatAtFirst = 0
    /\ IdleStruct
    /\ IdleResolve
    /\ IdleRules
    /\ IdleGen
    /\ IdleLoad

\* flatFileBuilder.addRules: the rules' calls are appended to b.f.Stmt
FlatAddRules ==
    /\ Len(flatAdded) < MaxAdds
    /\ \E rel \in BuilderRels, rules \in RuleLists :
         /\ flatF' = File(flatF.Path, flatF.Stmt \o rules)
         /\ flatAdded' = Append(flatAdded, rules)
    /\ UNCHANGED <<flatCalls, flatAtFirst, structVars,
                   resolveVars, rulesVars, genVars, loadVars>>

\* flatFileBuilder.files: the path is set and the load statement that
\* generateLoad returns for b.f, if any, is put in front of b.f.Stmt
FlatFiles ==
    /\ flatCalls < MaxFilesCalls
    /\ flatF' = File(buildFileName, WithLoad(flatF.Stmt))
    /\ flatCalls' = flatCalls + 1
    /\ flatAtFirst' = IF flatCalls = 0 THEN Len(flatAdded) ELSE flatAtFirst
    /\ UNCHANGED <<flatAdded, structVars, resolveVars, rulesVars, genVars, loadVars>>

NextFlat == FlatAddRules \/ FlatFiles

SpecFlat == InitFlat /\ [][NextFlat]_vars

RECURSIVE Flatten(_)
Flatten(lists) ==
    IF lists = <<>> THEN <<>> ELSE Head(lists) \o Flatten(Tail(lists))

NotLoad(stmts) == SelectSeq(stmts, LAMBDA c : c.kind # KindLoad)

\* at most one load statement, the first statement, then the rules added
FlatStatementsAsAdded ==
    /\ LoadStatements(flatF) \subseteq {1}
    /\ NotLoad(flatF.Stmt) = Flatten(flatAdded)

\* every addRules call came before the first files() call
AddsThenFiles == flatAtFirst = Len(flatAdded)

\* C11: after a sequence of addRules calls followed by one or more files()
\* calls, the flat builder's File has at most one load statement, placed first,
\* followed by one call statement per rule added, in the order added: the load
\* statement is put in once however often files() is called.
C11_FlatLoadOnce ==
    (flatCalls >= 1 /\ AddsThenFiles) => FlatStatementsAsAdded

\* the same after exactly one files() call
FlatFilesCalledOnce ==
    (flatCalls = 1 /\ AddsThenFiles) => FlatStatementsAsAdded /\ LoadIsExact(flatF)

----------------------------------------------------------------------------
(* structuredFileBuilder: a File per addRules call *)

NotCalled == [called |-> FALSE, files |-> <<>>]

InitStruct ==
    /\ structFs = <<>>
    /\ structAdded = <<>>
    /\ structRet = NotCalled
    /\ IdleFlat
    /\ IdleResolve
    /\ IdleRules
    /\ IdleGen
    /\ IdleLoad

\* structuredFileBuilder.addRules: a new File for rel, with the rules' calls
\* and the load statement in front, is appended to b.fs
StructAddRules ==
    /\ Len(structAdded) < MaxAdds
    /\ \E rel \in BuilderRels, rules \in RuleLists :
         /\ structFs' = Append(structFs,
                               File(PathJoin(<<rel, buildFileName>>), WithLoad(rules)))
         /\ structAdded' = Append(structAdded, [rel |-> rel, rules |-> rules])
    /\ UNCHANGED <<structRet, flatVars, resolveVars, rulesVars, genVars, loadVars>>

\* structuredFileBuilder.files
StructFiles ==
    /\ structRet' = [called |-> TRUE, files |-> structFs]
    /\ UNCHANGED <<structFs, structAdded, flatVars,
                   resolveVars, rulesVars, genVars, loadVars>>

NextStruct == StructAddRules \/ StructFiles

SpecStruct == InitStruct /\ [][NextStruct]_vars

AddedDirs == {structAdded[i].rel : i \in 1..Len(structAdded)}

\* the rules added for directory d, in the order added
RECURSIVE RulesAddedFor(_, _)
RulesAddedFor(added, d) ==
    IF added = <<>> THEN <<>>
    ELSE (IF Head(added).rel = d THEN Head(added).rules ELSE <<>>)
         \o RulesAddedFor(Tail(added), d)

FilesAt(fls, path) == {i \in 1..Len(fls) : fls[i].Path = path}

\* files() was called after the last addRules call
FilesUpToDate == structRet.called /\ structRet.files = structFs

\* one File per directory added, at the directory's build-file path, holding
\* the calls of the directory's rules in the order added
OneFilePerDirectory ==
    /\ Len(structRet.files) = Cardinality(AddedDirs)
    /\ \A d \in AddedDirs :
         \E i \in 1..Len(structRet.files) :
            /\ FilesAt(structRet.files, PathJoin(<<d, buildFileName>>)) = {i}
            /\ NotLoad(structRet.files[i].Stmt) = RulesAddedFor(structAdded, d)

\* C12: after any sequence of addRules(dir, rules) calls, files() holds exactly
\* one File per distinct directory passed, at that directory's build-file path,
\* with the call statements of all rules added for the directory in the order
\* added: a second addRules call for a directory does not make a second File
\* with the same path.
C12_OneFilePerDirectory == FilesUpToDate => OneFilePerDirectory

\* the same when no directory was passed twice
StructDistinctDirectories ==
    (FilesUpToDate /\ Cardinality(AddedDirs) = Len(structAdded)) =>
        OneFilePerDirectory /\ \A f \in Range(structRet.files) : LoadIsExact(f)

====
